---- MODULE Spec2Model ----
(***************************************************************************)
(* The API-tools agent of src/agent.py: a LangGraph StateGraph over        *)
(* MessagesState with the nodes "agent" (the model call) and "tools" (the  *)
(* prebuilt ToolNode over four @tool functions), routed by tools_condition,*)
(* and consumed by main() through astream(stream_mode=["updates",          *)
(* "custom"]).                                                             *)
(***************************************************************************)
EXTENDS Integers, Sequences, FiniteSets, TLC

\* ------------------------------------------------------------------ bounds
\* Tool calls the model requests in one run (the llm "gpt").
MaxCalls == 2
\* Tool calls requested plus chunks with content streamed in one run.
MaxWork == 4
\* Invocations of the agent node explored in one run.
MaxModelCalls == 4

\* ------------------------------------------------------------- the tools
\* tools = [get_random_joke, get_country_info, get_exchange_rate,
\*          get_github_user_info]
tools ==
  {"get_random_joke", "get_country_info", "get_exchange_rate", "get_github_user_info"}

\* A name the model may ask for although no tool of that name is registered.
Unregistered == "get_weather"

CallNames == tools \cup {Unregistered}

\* What the HTTP request of a lookup tool can come back with: a 2xx answer
\* with the data asked for, a 2xx answer without it (an empty list, a rate
\* table without the currency), a 404, another HTTP error status, or an
\* exception of requests.get / response.json (network, timeout, bad JSON).
Responses == {"ok", "empty", "http404", "http500", "exception"}

\* The text of a message or tool result: the template that produced it and,
\* for a joke, the streamed tokens it is made of.
Text(kind) == [kind |-> kind, text |-> <<>>]

\* get_country_info with except clauses that swallow the exception and
\* return nothing.
get_country_info_silent(resp) ==
  CASE resp = "ok"    -> Text("Country: .. Capital: .. Population: ..")
    [] resp = "empty" -> Text("No information found for country: ..")
    [] OTHER          -> Text("")

\* get_country_info(country_name) on a given HTTP outcome, by return site.
get_country_info(resp) ==
  CASE resp = "ok"      -> Text("Country: .. Capital: .. Population: ..")
    [] resp = "empty"   -> Text("No information found for country: ..")
    [] resp = "http404" -> Text("Country '..' not found. Try checking the spelling.")
    [] OTHER            -> Text("Error fetching country info: ..")

\* get_exchange_rate(from_currency, to_currency, amount): one except clause.
get_exchange_rate(resp) ==
  CASE resp = "ok"    -> Text(".. = .. Exchange rate: 1 .. = ..")
    [] resp = "empty" -> Text("Currency '..' not found or not supported.")
    [] OTHER          -> Text("Error fetching exchange rate: ..")

\* get_github_user_info(username): data.get(key, default) never raises, so
\* an answer without the fields is formatted with the defaults.
get_github_user_info(resp) ==
  CASE resp \in {"ok", "empty"} -> Text("GitHub User: .. Name: .. Company: ..")
    [] resp = "http404"         -> Text("GitHub user '..' not found.")
    [] OTHER                    -> Text("Error fetching GitHub user info: ..")

\* The body of a lookup tool, by name.
RunBody(name, resp) ==
  CASE name = "get_country_info"     -> get_country_info(resp)
    [] name = "get_exchange_rate"    -> get_exchange_rate(resp)
    [] name = "get_github_user_info" -> get_github_user_info(resp)

\* --------------------------------------------------------------- messages
HumanMessage(id) ==
  [type |-> "human", id |-> id, content |-> Text("Tell me a joke"),
   tool_calls |-> <<>>, tool_call_id |-> 0, name |-> "", status |-> ""]

\* The assistant message of one model call: an answer, or a batch of
\* tool-call requests (each with its id and tool name).
AIMessage(id, calls) ==
  [type |-> "ai", id |-> id,
   content |-> IF calls = <<>> THEN Text("answer") ELSE Text(""),
   tool_calls |-> calls, tool_call_id |-> 0, name |-> "", status |-> ""]

ToolMessage(content, name, tool_call_id, status) ==
  [type |-> "tool", id |-> 0, content |-> content,
   tool_calls |-> <<>>, tool_call_id |-> tool_call_id, name |-> name,
   status |-> status]

\* A messages key without the reducer: the update overwrites the list.
add_messages_overwrite(left, right, fresh) ==
  [k \in 1..Len(right) |->
     IF right[k].id = 0 THEN [right[k] EXCEPT !.id = fresh + k] ELSE right[k]]

\* MessagesState's reducer: a message whose id is already in the list
\* replaces the message of that id, any other message is appended; messages
\* without an id (0) are given a fresh one first.
RECURSIVE add_messages(_, _, _)
add_messages(left, right, fresh) ==
  IF right = <<>> THEN left
  ELSE LET m0 == Head(right)
           m == IF m0.id = 0 THEN [m0 EXCEPT !.id = fresh + 1] ELSE m0
           hit == {k \in 1..Len(left) : left[k].id = m.id}
           merged == IF hit = {} THEN Append(left, m)
                     ELSE [k \in 1..Len(left) |-> IF k \in hit THEN m ELSE left[k]]
       IN add_messages(merged, Tail(right), IF m0.id = 0 THEN fresh + 1 ELSE fresh)

\* The ids add_messages hands out for the messages of right that have none.
Unidentified(right) == Cardinality({k \in 1..Len(right) : right[k].id = 0})

\* A conditional edge that always ends the run.
tools_condition_end(msgs) == "__end__"

\* tools_condition: "tools" if the last message asks for tool calls, else END.
tools_condition(msgs) ==
  IF Len(msgs[Len(msgs)].tool_calls) > 0 THEN "tools" ELSE "__end__"

\* ------------------------------------------------------------------ state
VARIABLES
  llm,         \* the model behind llm_with_tools: "gpt" or "looper"
  messages,    \* state["messages"]
  node,        \* the node the graph runs next: "agent", "tools", "__end__"
  tasks,       \* the tool calls ToolNode is running, in request order
  stream,      \* stream chunks astream has not handed to main() yet
  printed,     \* the lines main() has printed: events, then maybe the error
  published,   \* history: every stream chunk written, in writing order
  invoked,     \* history: ids of the tool calls whose tool body was entered
  outcome,     \* of main(): "running", "done", "error", "cancelled"
  modelCalls,  \* llm_with_tools.invoke calls made
  calls,       \* tool calls requested so far
  nextId       \* last id given to a message or a tool call

vars == <<llm, messages, node, tasks, stream, printed, published, invoked,
          outcome, modelCalls, calls, nextId>>

\* ----------------------------------------------------------- stream chunks
\* writer({"status": s, "type": "status"}) inside tool call c
StatusEvent(c, s) ==
  [mode |-> "custom", call |-> c, type |-> "status", status |-> s, content |-> <<>>]

\* writer({"content": t, "type": "joke_chunk"}) inside tool call c
ChunkEvent(c, t) ==
  [mode |-> "custom", call |-> c, type |-> "joke_chunk", status |-> "", content |-> <<t>>]

\* The "updates" chunk of a finished node: the node and the ids (for tool
\* messages the tool_call_ids) of the messages it returned.
UpdateEvent(n, ids) ==
  [mode |-> "updates", call |-> 0, type |-> n, status |-> "", content |-> ids]

\* print(f"Error during streaming: {e}")
ErrorLine ==
  [mode |-> "error", call |-> 0, type |-> "Error during streaming", status |-> "",
   content |-> <<>>]

\* A stream that hands over the newest chunk first.
writer_newest_first(q, ev) == <<ev>> \o q

\* The stream writer: chunks leave in the order they were written.
writer(q, ev) == Append(q, ev)

\* ------------------------------------------------------------------- Init
Init ==
  /\ llm \in {"gpt", "looper"}
  /\ messages = add_messages(<<>>, <<HumanMessage(0)>>, 0)
  /\ node = "agent"
  /\ tasks = <<>>
  /\ stream = <<>>
  /\ printed = <<>>
  /\ published = <<>>
  /\ invoked = {}
  /\ outcome = "running"
  /\ modelCalls = 0
  /\ calls = 0
  /\ nextId = 1

\* The batches the model may ask for: "gpt" any one to MaxCalls - calls
\* calls by any names, "looper" always one more country lookup.
Batches ==
  IF llm = "looper" THEN {<<"get_country_info">>}
  ELSE UNION {[1..n -> CallNames] : n \in 1..(MaxCalls - calls)}

\* The tool-call requests of a batch of names, with ids following id.
Requests(names, id) == [i \in 1..Len(names) |-> [id |-> id + i, name |-> names[i]]]

\* Publish ev: onto the stream, and into the history of everything written.
Publish(ev) ==
  /\ stream' = writer(stream, ev)
  /\ published' = Append(published, ev)

\* A superstep starts once astream has handed over every chunk of the one
\* before it.
Flushed == stream = <<>>

\* agent(state), and the conditional edge out of it.
Agent(names) ==
  /\ outcome = "running" /\ node = "agent" /\ Flushed
  /\ modelCalls < MaxModelCalls
  /\ LET response == AIMessage(nextId + 1, Requests(names, nextId + 1))
         msgs == add_messages(messages, <<response>>, nextId)
     IN /\ messages' = msgs
        /\ node' = tools_condition(msgs)
        /\ Publish(UpdateEvent("agent", <<response.id>>))
        /\ nextId' = nextId + 1 + Len(names)
  /\ modelCalls' = modelCalls + 1
  /\ calls' = calls + Len(names)
  /\ UNCHANGED <<llm, tasks, printed, invoked, outcome>>

AgentAnswers == llm = "gpt" /\ Agent(<<>>)

AgentRequests == \E names \in Batches : Agent(names)

\* llm_with_tools.invoke raises: the exception leaves astream and main()
\* prints it.
AgentRaises ==
  /\ outcome = "running" /\ node = "agent" /\ Flushed
  /\ modelCalls < MaxModelCalls
  /\ llm = "gpt"
  /\ modelCalls' = modelCalls + 1
  /\ printed' = Append(printed, ErrorLine)
  /\ outcome' = "error"
  /\ UNCHANGED <<llm, messages, node, tasks, stream, published, invoked, calls, nextId>>

\* One running tool call of the batch.
Task(call) ==
  [call |-> call, pc |-> "start", joke_content |-> <<>>,
   resp |-> "", result |-> Text(""), status |-> ""]

\* ToolNode starts on the last message's tool calls, all of them at once.
ToolNodeStart ==
  /\ outcome = "running" /\ node = "tools" /\ tasks = <<>> /\ Flushed
  /\ LET batch == messages[Len(messages)].tool_calls
     IN tasks' = [i \in 1..Len(batch) |-> Task(batch[i])]
  /\ UNCHANGED <<llm, messages, node, stream, printed, published, invoked,
                 outcome, modelCalls, calls, nextId>>

Done(t, content, status) ==
  [t EXCEPT !.pc = "done", !.result = content, !.status = status]

\* A ToolNode that does not look the name up and runs the call as a lookup.
InvalidTool_dispatched(i) ==
  /\ outcome = "running" /\ i \in 1..Len(tasks)
  /\ tasks[i].pc = "start"
  /\ tasks[i].call.name \notin tools
  /\ tasks' = [tasks EXCEPT ![i] = Done(@, Text("Error fetching .."), "success")]
  /\ invoked' = invoked \cup {tasks[i].call.id}
  /\ UNCHANGED <<llm, messages, node, stream, printed, published,
                 outcome, modelCalls, calls, nextId>>

\* ToolNode on a call whose name is not registered: the error message, and
\* no tool is invoked.
InvalidTool(i) ==
  /\ outcome = "running" /\ i \in 1..Len(tasks)
  /\ tasks[i].pc = "start"
  /\ tasks[i].call.name \notin tools
  /\ tasks' = [tasks EXCEPT ![i] =
                 Done(@, Text("Error: .. is not a valid tool, try one of [..]."), "error")]
  /\ UNCHANGED <<llm, messages, node, stream, printed, published, invoked,
                 outcome, modelCalls, calls, nextId>>

\* One of the three lookup tools, from its request to its return.
Lookup(i) ==
  /\ outcome = "running" /\ i \in 1..Len(tasks)
  /\ tasks[i].pc = "start"
  /\ tasks[i].call.name \in tools \ {"get_random_joke"}
  /\ \E resp \in Responses :
       tasks' = [tasks EXCEPT ![i] =
                   [Done(@, RunBody(@.call.name, resp), "success") EXCEPT !.resp = resp]]
  /\ invoked' = invoked \cup {tasks[i].call.id}
  /\ UNCHANGED <<llm, messages, node, stream, printed, published,
                 outcome, modelCalls, calls, nextId>>

JokeError == Text("Couldn't generate a joke right now: ..")

\* get_random_joke up to the stream: the status event, then the request.
\* The import or get_stream_writer may raise before the event is written,
\* OpenAI() or create() after it.
JokeBegin(i) ==
  /\ outcome = "running" /\ i \in 1..Len(tasks)
  /\ tasks[i].pc = "start"
  /\ tasks[i].call.name = "get_random_joke"
  /\ invoked' = invoked \cup {tasks[i].call.id}
  /\ \/ /\ tasks' = [tasks EXCEPT ![i] = Done(@, JokeError, "success")]
        /\ UNCHANGED <<stream, published>>
     \/ /\ Publish(StatusEvent(tasks[i].call.id, "Generating a joke..."))
        /\ \/ tasks' = [tasks EXCEPT ![i].pc = "streaming"]
           \/ tasks' = [tasks EXCEPT ![i] = Done(@, JokeError, "success")]
  /\ UNCHANGED <<llm, messages, node, printed, outcome, modelCalls, calls, nextId>>

\* The chunks with content written in this run so far.
Streamed == Len(SelectSeq(published, LAMBDA e : e.type = "joke_chunk"))

\* An iteration that accumulates the content without writing the event.
JokeChunk_unwritten(i) ==
  /\ outcome = "running" /\ i \in 1..Len(tasks)
  /\ tasks[i].pc = "streaming"
  /\ calls + Len(tasks[i].joke_content) < MaxWork
  /\ tasks' = [tasks EXCEPT ![i].joke_content = Append(@, Len(@) + 1)]
  /\ UNCHANGED <<llm, messages, node, stream, printed, published, invoked,
                 outcome, modelCalls, calls, nextId>>

\* One iteration of "for chunk in stream": a chunk with content (the k-th
\* such chunk of a call carries the token k), a chunk without content, or an
\* exception (the stream breaks, or the chunk has no choices).
JokeChunk(i) ==
  /\ outcome = "running" /\ i \in 1..Len(tasks)
  /\ tasks[i].pc = "streaming"
  /\ LET t == Len(tasks[i].joke_content) + 1
     IN \/ /\ calls + Streamed < MaxWork
           /\ tasks' = [tasks EXCEPT ![i].joke_content = Append(@, t)]
           /\ Publish(ChunkEvent(tasks[i].call.id, t))
        \/ /\ UNCHANGED <<tasks, stream, published>>
        \/ /\ tasks' = [tasks EXCEPT ![i] = Done(@, JokeError, "success")]
           /\ UNCHANGED <<stream, published>>
  /\ UNCHANGED <<llm, messages, node, printed, invoked, outcome, modelCalls,
                 calls, nextId>>

\* The stream ends: the closing status event, and the joke is returned.
JokeFinish(i) ==
  /\ outcome = "running" /\ i \in 1..Len(tasks)
  /\ tasks[i].pc = "streaming"
  /\ Publish(StatusEvent(tasks[i].call.id, "Joke complete!"))
  /\ tasks' = [tasks EXCEPT ![i] =
                 Done(@, [kind |-> "joke", text |-> @.joke_content], "success")]
  /\ UNCHANGED <<llm, messages, node, printed, invoked, outcome, modelCalls,
                 calls, nextId>>

\* A ToolNode that returns as soon as one call of the batch is done.
Joined_first(ts) == \E i \in 1..Len(ts) : ts[i].pc = "done"

\* ToolNode waits for every call of the batch.
Joined(ts) == \A i \in 1..Len(ts) : ts[i].pc = "done"

\* The tool messages of the batch, in the order of the requests.
Outputs(ts) ==
  LET done == SelectSeq(ts, LAMBDA t : t.pc = "done")
  IN [i \in 1..Len(done) |->
        ToolMessage(done[i].result, done[i].call.name, done[i].call.id, done[i].status)]

\* ToolNode returns, and the edge "tools" -> "agent".
ToolNodeJoin ==
  /\ outcome = "running" /\ node = "tools" /\ tasks # <<>>
  /\ Joined(tasks)
  /\ LET out == Outputs(tasks)
     IN /\ messages' = add_messages(messages, out, nextId)
        /\ nextId' = nextId + Unidentified(out)
        /\ Publish(UpdateEvent("tools", [i \in 1..Len(out) |-> out[i].tool_call_id]))
  /\ tasks' = <<>>
  /\ node' = "agent"
  /\ UNCHANGED <<llm, printed, invoked, outcome, modelCalls, calls>>

\* The chunk main() gets next.
Next_chunk(q) == Head(q)

\* async for event in agent.astream(...): print(f"Event: {event}")
Deliver ==
  /\ outcome = "running" /\ stream # <<>>
  /\ printed' = Append(printed, Next_chunk(stream))
  /\ stream' = Tail(stream)
  /\ UNCHANGED <<llm, messages, node, tasks, published, invoked, outcome,
                 modelCalls, calls, nextId>>

\* An astream that ends without handing over what is left.
MayEnd_unflushed(q) == TRUE

\* astream may end once every chunk is handed over.
MayEnd(q) == q = <<>>

\* The graph reached END: astream ends, and the async for with it.
Finish ==
  /\ outcome = "running" /\ node = "__end__"
  /\ MayEnd(stream)
  /\ outcome' = "done"
  /\ UNCHANGED <<llm, messages, node, tasks, stream, printed, published, invoked,
                 modelCalls, calls, nextId>>

\* The caller cancels main()'s task (a timeout around it, Ctrl-C under
\* asyncio.run): CancelledError is no Exception, so the except clause of
\* main() does not see it and nothing more is printed. The run is unwound
\* and its state discarded; what was printed stays.
Cancel ==
  /\ outcome = "running"
  /\ outcome' = "cancelled"
  /\ messages' = <<>> /\ node' = "__end__" /\ tasks' = <<>>
  /\ stream' = <<>> /\ published' = <<>> /\ invoked' = {}
  /\ modelCalls' = 0 /\ calls' = 0 /\ nextId' = 0
  /\ UNCHANGED <<llm, printed>>

Next ==
  \/ AgentAnswers
  \/ AgentRequests
  \/ AgentRaises
  \/ ToolNodeStart
  \/ \E i \in 1..MaxCalls : InvalidTool(i)
  \/ \E i \in 1..MaxCalls : Lookup(i)
  \/ \E i \in 1..MaxCalls : JokeBegin(i)
  \/ \E i \in 1..MaxCalls : JokeChunk(i)
  \/ \E i \in 1..MaxCalls : JokeFinish(i)
  \/ ToolNodeJoin
  \/ Deliver
  \/ Finish
  \/ Cancel

Spec == Init /\ [][Next]_vars

\* ------------------------------------------------------- reading the state
Last(seq) == seq[Len(seq)]

Range(seq) == {seq[k] : k \in 1..Len(seq)}

IsPrefix(a, b) == Len(a) <= Len(b) /\ \A k \in 1..Len(a) : a[k] = b[k]

\* The assistant messages that ask for tool calls.
Asking == {k \in 1..Len(messages) :
             messages[k].type = "ai" /\ Len(messages[k].tool_calls) > 0}

\* The batch of messages[k] is answered: its N requests are followed by N
\* tool messages, the i-th carrying the id of the i-th request, and by no
\* further tool message.
Answered(k) ==
  LET batch == messages[k].tool_calls
      N == Len(batch)
  IN /\ k + N <= Len(messages)
     /\ \A i \in 1..N : /\ messages[k + i].type = "tool"
                        /\ messages[k + i].tool_call_id = batch[i].id
     /\ k + N < Len(messages) => messages[k + N + 1].type = "ai"

\* The stream chunks tool call c wrote, as they stand in a log.
Events(log, c) == SelectSeq(log, LAMBDA e : e.mode = "custom" /\ e.call = c)

\* The tokens of the chunk events among evs, in their order there.
Tokens(evs) ==
  LET chunks == SelectSeq(evs, LAMBDA e : e.type = "joke_chunk")
  IN [p \in 1..Len(chunks) |-> chunks[p].content[1]]

Completed(evs) == \E p \in 1..Len(evs) : evs[p].status = "Joke complete!"

\* --------------------------------------------------------------------- C1
\* C1: the message of every model call that returns is appended; the graph
\* goes on to "tools" exactly when that message asks for tool calls and to
\* END otherwise; a run that is done ends on an assistant message without
\* tool calls.
C1_Routing ==
  outcome # "cancelled" =>
    /\ Cardinality({k \in 1..Len(messages) : messages[k].type = "ai"})
         = modelCalls - (IF outcome = "error" THEN 1 ELSE 0)
    /\ node = "tools" => Last(messages).type = "ai" /\ Len(Last(messages).tool_calls) > 0
    /\ node = "__end__" => Last(messages).type = "ai" /\ Last(messages).tool_calls = <<>>
    /\ node = "agent" => Last(messages).type \in {"human", "tool"}
    /\ outcome = "done" =>
         /\ node = "__end__"
         /\ Last(messages).type = "ai"
         /\ Last(messages).tool_calls = <<>>
         /\ Last(messages).content = Text("answer")

\* A run that is done after a round of tool calls.
C1_Witness ==
  /\ outcome = "done"
  /\ Asking # {}
  /\ Last(messages).type = "ai" /\ Last(messages).tool_calls = <<>>

\* --------------------------------------------------------------------- C2
\* C2: every batch of N tool calls is answered by exactly N tool messages in
\* the order of the requests, whatever order the calls finish in, before the
\* next model call; while a call of the batch has no result the graph stays
\* in "tools".
C2_BatchAnswered ==
  /\ \A k \in Asking :
       IF k = Len(messages) THEN node = "tools" ELSE Answered(k)
  /\ \A j \in 1..Len(messages) :
       messages[j].type = "tool" =>
         \E k \in Asking : k < j /\ j <= k + Len(messages[k].tool_calls)
  /\ tasks # <<>> =>
       /\ node = "tools"
       /\ Last(messages).type = "ai"
       /\ Len(tasks) = Len(Last(messages).tool_calls)
       /\ \A i \in 1..Len(tasks) : tasks[i].call = Last(messages).tool_calls[i]

\* Two jokes asked for in one batch: the second was complete before the
\* first, both are answered in the order of the requests, and the model was
\* called again.
C2_Witness ==
  \E k \in Asking :
    /\ Len(messages[k].tool_calls) = 2
    /\ Answered(k)
    /\ k + 2 < Len(messages)
    /\ \E p, q \in 1..Len(printed) :
         /\ p < q
         /\ printed[p].status = "Joke complete!"
         /\ printed[p].call = messages[k].tool_calls[2].id
         /\ printed[q].status = "Joke complete!"
         /\ printed[q].call = messages[k].tool_calls[1].id

\* --------------------------------------------------------------------- C3
\* C3: with an iteration cap of 3 and a model that asks for a tool call every
\* time, the run ends "exhausted" after 3 iterations: the model is not
\* called a fourth time, and after the third round the run is not running.
C3_Exhausted ==
  llm = "looper" =>
    /\ modelCalls <= 3
    /\ modelCalls = 3 /\ node = "agent" => outcome = "exhausted"

\* --------------------------------------------------------------------- C4
\* The HTTP outcomes on which a lookup fails.
Failures == {"http404", "http500", "exception"}

\* The error descriptions the lookup tools return.
ErrorTexts ==
  {"Country '..' not found. Try checking the spelling.",
   "Error fetching country info: ..",
   "Error fetching exchange rate: ..",
   "GitHub user '..' not found.",
   "Error fetching GitHub user info: .."}

\* C4: a lookup that fails ends as a result holding an error description;
\* every call that is done and every tool message holds a result; and the run
\* ends in an error only by the model call itself, with every batch answered
\* in full.
C4_FailureIsOutput ==
  /\ \A i \in 1..Len(tasks) :
       tasks[i].resp \in Failures =>
         /\ tasks[i].pc = "done"
         /\ tasks[i].result.kind \in ErrorTexts
  /\ \A i \in 1..Len(tasks) :
       tasks[i].pc = "done" => tasks[i].result.kind # ""
  /\ \A j \in 1..Len(messages) :
       messages[j].type = "tool" => messages[j].content.kind # ""
  /\ outcome = "error" =>
       /\ node = "agent"
       /\ Last(printed) = ErrorLine
       /\ \A k \in Asking : Answered(k)

\* A batch of two: the country lookup failed, the other call gave its
\* result, both are in the conversation and the model was called again.
C4_Witness ==
  \E k \in Asking :
    /\ Len(messages[k].tool_calls) = 2
    /\ Answered(k)
    /\ k + 2 < Len(messages)
    /\ messages[k + 1].content.kind = "Error fetching country info: .."
    /\ messages[k + 2].content.kind = ".. = .. Exchange rate: 1 .. = .."
    /\ outcome = "done"

\* --------------------------------------------------------------------- C5
\* C5: every step of the loop makes the conversation longer, the agent node
\* by exactly one assistant message, the tools node by one tool message or
\* more, and no step removes or replaces a message that is there.
C5_Grows ==
  [][outcome' # "cancelled" =>
       /\ IsPrefix(messages, messages')
       /\ node' # node => Len(messages') > Len(messages)
       /\ node = "agent" /\ node' # node =>
            /\ Len(messages') = Len(messages) + 1
            /\ Last(messages').type = "ai"
       /\ node = "tools" /\ node' # node =>
            \A j \in (Len(messages) + 1)..Len(messages') : messages'[j].type = "tool"
       /\ messages' # messages => node' # node]_vars

\* Two rounds of the loop have gone by and the run is done.
C5_Witness ==
  /\ outcome = "done"
  /\ Cardinality(Asking) = 2
  /\ Len(messages) = 6

\* --------------------------------------------------------------------- C6
\* The text ToolNode answers a request for an unregistered tool with.
InvalidToolText == "Error: .. is not a valid tool, try one of [..]."

\* C6: a request whose tool name is not registered is answered by the
\* failing "not a valid tool" result, and no tool body is entered for it.
C6_UnknownTool ==
  /\ \A i \in 1..Len(tasks) :
       tasks[i].call.name \notin
           {"get_random_joke", "get_country_info", "get_exchange_rate",
            "get_github_user_info"} =>
         /\ tasks[i].call.id \notin invoked
         /\ tasks[i].pc = "done" =>
              tasks[i].result.kind = InvalidToolText /\ tasks[i].status = "error"
  /\ \A k \in Asking : \A i \in 1..Len(messages[k].tool_calls) :
       messages[k].tool_calls[i].name \notin
           {"get_random_joke", "get_country_info", "get_exchange_rate",
            "get_github_user_info"} =>
         /\ messages[k].tool_calls[i].id \notin invoked
         /\ k + i <= Len(messages) =>
              /\ messages[k + i].content.kind = InvalidToolText
              /\ messages[k + i].status = "error"
              /\ messages[k + i].tool_call_id = messages[k].tool_calls[i].id

\* An unregistered tool was asked for, answered, and the model called again.
C6_Witness ==
  \E k \in Asking :
    /\ messages[k].tool_calls[1].name = Unregistered
    /\ Answered(k)
    /\ k + Len(messages[k].tool_calls) < Len(messages)
    /\ messages[k + 1].status = "error"

\* --------------------------------------------------------------------- C7
\* C7: a run the caller cancelled closes its event stream with a "cancelled"
\* marker.
C7_CancelMarked ==
  outcome = "cancelled" =>
    /\ printed # <<>>
    /\ Last(printed).type = "cancelled"

\* --------------------------------------------------------------------- C8
\* The stream chunks among the printed lines.
Delivered == SelectSeq(printed, LAMBDA e : e.mode # "error")

\* C8: when the run is done or has failed, everything that was published has
\* been delivered, in the order of publishing; a failure is reported as the
\* last line; a graph at END can always hand over its next chunk or end the
\* stream; and nothing is delivered once the run is over.
C8_StreamCloses ==
  /\ [](outcome \in {"done", "error"} => Delivered = published)
  /\ [](outcome = "error" => Last(printed) = ErrorLine)
  /\ [](outcome = "running" => IsPrefix(Delivered, published))
  /\ [](outcome = "running" /\ node = "__end__" => ENABLED (Deliver \/ Finish))
  /\ [][outcome # "running" => printed' = printed /\ outcome' = outcome]_vars

\* A run that is done after a joke streamed two chunks.
C8_Witness ==
  /\ outcome = "done"
  /\ Len(SelectSeq(printed, LAMBDA e : e.type = "joke_chunk")) = 2
  /\ Delivered = published

\* --------------------------------------------------------------------- C9
\* The events of one joke call in their order: the opening status, the chunks
\* in the order generated (token 1, token 2, ...), the closing status last.
InOrder(evs) ==
  evs # <<>> =>
    /\ evs[1].status = "Generating a joke..."
    /\ \A p \in 2..Len(evs) :
         \/ evs[p].type = "joke_chunk" /\ evs[p].content = <<p - 1>>
         \/ p = Len(evs) /\ evs[p].status = "Joke complete!"

\* C9: main() sees the events of each joke call in the order they were
\* written, all of them before the update that carries the call's tool
\* message, and that update before the update of the answering model call.
C9_JokeEventOrder ==
  /\ \A c \in {printed[p].call : p \in 1..Len(printed)} \ {0} :
       /\ InOrder(Events(printed, c))
       /\ \A p \in 1..Len(printed) :
            printed[p].type = "tools" /\ c \in Range(printed[p].content) =>
              /\ Events(SubSeq(printed, 1, p), c) = Events(printed, c)
              /\ outcome # "cancelled" => Events(printed, c) = Events(published, c)
  /\ \A j \in 1..Len(messages) :
       messages[j].type = "tool" /\ messages[j].name = "get_random_joke" =>
         LET c == messages[j].tool_call_id
             evs == Events(published, c)
         IN /\ InOrder(evs)
            /\ messages[j].content.kind = "joke" =>
                 Completed(evs) /\ Tokens(evs) = messages[j].content.text
            /\ outcome = "done" =>
                 \E p, q \in 1..Len(printed) :
                   /\ p < q
                   /\ printed[p].type = "tools" /\ c \in Range(printed[p].content)
                   /\ printed[q].type = "agent"
                   /\ printed[q].content = <<Last(messages).id>>
                   /\ Events(SubSeq(printed, 1, p), c) = evs

\* Two jokes of one batch whose events interleave: the second call's opening
\* status comes between the first call's opening status and its chunk, and
\* the run is done.
C9_Witness ==
  /\ outcome = "done"
  /\ \E k \in Asking :
       /\ Len(messages[k].tool_calls) = 2
       /\ LET c1 == messages[k].tool_calls[1].id
              c2 == messages[k].tool_calls[2].id
          IN \E p, q, r \in 1..Len(printed) :
               /\ p < q /\ q < r
               /\ printed[p].call = c1 /\ printed[p].status = "Generating a joke..."
               /\ printed[q].call = c2 /\ printed[q].status = "Generating a joke..."
               /\ printed[r].call = c1 /\ printed[r].type = "joke_chunk"
               /\ Completed(Events(printed, c1))
               /\ Completed(Events(printed, c2))

\* -------------------------------------------------------------------- C10
\* C10: in get_random_joke the accumulated text is the concatenation of the
\* chunk events written so far; the closing status is written exactly when
\* the call returns that text; a call that fails returns the error text,
\* without the closing status, and its chunks stay written.
C10_JokeText ==
  /\ \A i \in 1..Len(tasks) :
       tasks[i].call.name = "get_random_joke" =>
         LET evs == Events(published, tasks[i].call.id)
             returned == tasks[i].pc = "done" /\ tasks[i].result.kind = "joke"
         IN /\ tasks[i].joke_content = Tokens(evs)
            /\ Completed(evs) <=> returned
            /\ returned => tasks[i].result.text = Tokens(evs)
            /\ tasks[i].pc = "done" /\ ~returned => tasks[i].result = JokeError
  /\ \A j \in 1..Len(messages) :
       messages[j].type = "tool" /\ messages[j].name = "get_random_joke" =>
         LET evs == Events(published, messages[j].tool_call_id)
         IN /\ Completed(evs) <=> messages[j].content.kind = "joke"
            /\ messages[j].content.kind = "joke" => messages[j].content.text = Tokens(evs)
            /\ messages[j].content.kind # "joke" => messages[j].content = JokeError

\* Two jokes of one batch are answered: one returned the chunk it streamed,
\* the other failed after its chunk was written, and that chunk was printed.
C10_Witness ==
  \E j1, j2 \in 1..Len(messages) :
    /\ messages[j1].type = "tool" /\ messages[j2].type = "tool"
    /\ messages[j1].content = [kind |-> "joke", text |-> <<1>>]
    /\ messages[j2].content = JokeError
    /\ Tokens(Events(printed, messages[j2].tool_call_id)) = <<1>>
    /\ ~Completed(Events(published, messages[j2].tool_call_id))

====
